---- MODULE Spec2Model ----
(***************************************************************************)
(* Session-gated views of the web app: the Dashboard page                  *)
(* (apps/web/src/app/dashboard/page.tsx) and the Header component          *)
(* (unnamed/part_000).  Both read the (data, isPending) tuple of           *)
(* authClient.useSession(), render from it, and run the same effect that   *)
(* calls router.push("/login") when there is no session and the tuple is   *)
(* not pending.  The session store, the router, the private-data query     *)
(* and React's render/commit/effect cycle are the environment.             *)
(***************************************************************************)
EXTENDS Integers, Sequences, FiniteSets, TLC

\* Bounds of the model.
MaxEpochs == 2      \* transitions of the session store into "no session"

Components == {"Dashboard", "Header"}

\* Values of `data` returned by useSession(): null or a session object.
Null == [tag |-> "null"]
Names == {"alice", "bob"}
Sessions == {[tag |-> "session", user |-> [name |-> n]] : n \in Names}
Data == {Null} \cup Sessions

\* Values of the private-data query (useQuery): data is undefined until the
\* query has succeeded.
Undefined == [tag |-> "undefined"]
QueryResults ==
    { [status |-> "pending", data |-> Undefined],
      [status |-> "error", data |-> Undefined],
      [status |-> "success", data |-> [message |-> "This is private"]] }

\* The tuples the session store can hold.  A failed resolution leaves
\* data = null, isPending = false and sets error, which neither component reads.
PendingTuples == {[data |-> d, isPending |-> TRUE, error |-> FALSE] : d \in Data}
NoSessionTuple == [data |-> Null, isPending |-> FALSE, error |-> FALSE]
FailureTuple == [data |-> Null, isPending |-> FALSE, error |-> TRUE]
SessionTuples == {[data |-> s, isPending |-> FALSE, error |-> FALSE] : s \in Sessions}

\* The stable reference returned by useRouter().
Router == "router"
NoDeps == <<>>
Routes == {"/", "/dashboard", "/login"}

VARIABLES
    store,          \* the session store behind authClient.useSession()
    epoch,          \* number of times the store entered "no session" so far
    privateData,    \* result of useQuery(orpc.privateData.queryOptions())
    mounted,        \* mounted[c]: component c is mounted
    obs,            \* obs[c]: the (data, isPending) tuple c read at its last render
    deps,           \* deps[c]: dependency array of c's effect at its last render
    out,            \* out[c]: what c returned at its last render
    dirty,          \* dirty[c]: the store notified c and c has not re-rendered yet
    effectPending,  \* effectPending[c]: c's effect is scheduled and has not run
    sawUnauth,      \* sawUnauth[c]: c observed "no session" during this mount
    pushCount,      \* pushCount[c][e]: router.push calls of c's current (or last)
                    \* mount during epoch e
    navPending,     \* target of a router.push that has not taken effect yet
    route,          \* the route shown
    pushFailed,     \* a router.push call has failed (RedirectFailure)
    logged          \* the reports made to a logging collaborator

vars == <<store, epoch, privateData, mounted, obs, deps, out, dirty,
          effectPending, sawUnauth, pushCount, navPending, route, pushFailed,
          logged>>

\* The three session states as the components' branches distinguish them.
Kind(data, isPending) ==
    IF isPending THEN "Pending"
    ELSE IF data = Null THEN "Unauthenticated"
    ELSE "Authenticated"

Epochs == 0..MaxEpochs
NoPushes == [e \in Epochs |-> 0]

----------------------------------------------------------------------------
\* Rendering

Loader == [kind |-> "Loader"]
Nothing == [kind |-> "null"]
Unmounted == [kind |-> "unmounted"]

\* privateData.data?.message
Message(q) == IF q.data = Undefined THEN Undefined ELSE [text |-> q.data.message]

\* Dashboard() with the session test before the pending test.
DashboardRenderSessionFirst(session, isPending, q) ==
    IF session = Null THEN (IF isPending THEN Loader ELSE Nothing)
    ELSE [kind |-> "content",
          welcome |-> session.user.name,
          privateData |-> Message(q)]

\* Dashboard() that keeps returning null once it has seen "no session".
DashboardRenderSticky(session, isPending, q) ==
    IF isPending THEN Loader
    ELSE IF session = Null \/ sawUnauth["Dashboard"] THEN Nothing
    ELSE [kind |-> "content",
          welcome |-> session.user.name,
          privateData |-> Message(q)]

\* Dashboard() that waits for the private-data query before it shows the
\* content.
DashboardRenderQueryGated(session, isPending, q) ==
    IF isPending \/ q.status = "pending" THEN Loader
    ELSE IF session = Null \/ q.status = "error" THEN Nothing
    ELSE [kind |-> "content",
          welcome |-> session.user.name,
          privateData |-> Message(q)]

\* The value Dashboard() returns.
DashboardRender(session, isPending, q) ==
    IF isPending THEN Loader
    ELSE IF session = Null THEN Nothing
    ELSE [kind |-> "content",
          welcome |-> session.user.name,
          privateData |-> Message(q)]

HomeLink == [to |-> "/", label |-> "Home"]
DashboardLink == [to |-> "/dashboard", label |-> "Dashboard"]
TodosLink == [to |-> "/todos", label |-> "Todos"]
baseLinks == <<HomeLink>>
gatedLinks == <<DashboardLink, TodosLink>>

\* The link list without the session test.
HeaderLinksUngated(session) == baseLinks \o gatedLinks

\* The link list with the conditional part spread first.
HeaderLinksGatedFirst(session) ==
    (IF session # Null THEN gatedLinks ELSE <<>>) \o baseLinks

\* const links = [ Home, ...(session ? [Dashboard, Todos] : []) ]
HeaderLinks(session) ==
    baseLinks \o (IF session # Null THEN gatedLinks ELSE <<>>)

\* The value Header() returns.
HeaderRender(session, isPending) ==
    IF isPending THEN Loader
    ELSE [kind |-> "nav", links |-> HeaderLinks(session)]

RenderOf(c, session, isPending, q) ==
    IF c = "Dashboard" THEN DashboardRender(session, isPending, q)
    ELSE HeaderRender(session, isPending)

----------------------------------------------------------------------------
\* Effects

\* The effect's test without the session part.
DashboardRedirectWhenResolved(session, isPending) == ~isPending

\* The effect's test without the pending part.
DashboardRedirectNoSession(session, isPending) == session = Null

\* The effect's test with the session part not negated.
DashboardRedirectIfSession(session, isPending) == session # Null /\ ~isPending

\* The effect's test behind a flag that is set by the first redirect of the
\* mount and never cleared.
DashboardRedirectOnce(session, isPending) ==
    /\ session = Null /\ ~isPending
    /\ \A e \in Epochs : pushCount["Dashboard"][e] = 0

\* if (!session && !isPending) in the Dashboard's effect
DashboardShouldRedirect(session, isPending) == session = Null /\ ~isPending

\* if (!session && !isPending) in the Header's effect
HeaderShouldRedirect(session, isPending) == session = Null /\ ~isPending

ShouldRedirect(c, session, isPending) ==
    IF c = "Dashboard" THEN DashboardShouldRedirect(session, isPending)
    ELSE HeaderShouldRedirect(session, isPending)

\* [session, isPending, router]
EffectDeps(session, isPending) == <<session, isPending, Router>>

\* The effect without a dependency array: it runs after every render.
DepsChangedAlways(old, new) == TRUE

\* React runs an effect after the first render and after a render whose
\* dependency array differs from the previous one.
DepsChanged(old, new) == old = NoDeps \/ old # new

\* c's pending effect calls router.push("/login")
EffectPushes(c) ==
    effectPending[c] /\ ShouldRedirect(c, obs[c].data, obs[c].isPending)

\* router.push("/login") by c, counted in the current epoch
PushBy(c) == [pushCount EXCEPT ![c][epoch] = @ + 1]

\* What the router does with a push: it starts the navigation (ok = TRUE) or
\* fails (ok = FALSE).  The effect has no try/catch and calls no logger, so
\* a failure changes nothing else.
RouterPush(ok) ==
    /\ navPending' = IF ok THEN "/login" ELSE navPending
    /\ pushFailed' = (pushFailed \/ ~ok)
    /\ UNCHANGED logged

----------------------------------------------------------------------------
Init ==
    /\ store = [data |-> Null, isPending |-> TRUE, error |-> FALSE]
    /\ epoch = 0
    /\ privateData = [status |-> "pending", data |-> Undefined]
    /\ mounted = [c \in Components |-> FALSE]
    /\ obs = [c \in Components |-> [data |-> Null, isPending |-> TRUE]]
    /\ deps = [c \in Components |-> NoDeps]
    /\ out = [c \in Components |-> Unmounted]
    /\ dirty = [c \in Components |-> FALSE]
    /\ effectPending = [c \in Components |-> FALSE]
    /\ sawUnauth = [c \in Components |-> FALSE]
    /\ pushCount = [c \in Components |-> NoPushes]
    /\ navPending = "none"
    /\ route = "/"
    /\ pushFailed = FALSE
    /\ logged = <<>>

\* The session store takes the value t and notifies the mounted subscribers.
\* The UI thread re-renders the notified components before it handles the
\* next store update.
ProviderSet(t) ==
    /\ t # store
    /\ \A c \in Components : ~dirty[c]
    /\ LET entering == /\ Kind(t.data, t.isPending) = "Unauthenticated"
                       /\ Kind(store.data, store.isPending) # "Unauthenticated"
       IN  /\ entering => epoch < MaxEpochs
           /\ epoch' = IF entering THEN epoch + 1 ELSE epoch
    /\ store' = t
    /\ dirty' = [c \in Components |-> mounted[c]]
    /\ UNCHANGED <<privateData, mounted, obs, deps, out, effectPending,
                   sawUnauth, pushCount, navPending, route, pushFailed, logged>>

\* A session fetch starts: isPending becomes true.
SessionFetchStart == \E t \in PendingTuples : ProviderSet(t)

\* The fetch resolves with a session.
SessionResolved == \E t \in SessionTuples : ProviderSet(t)

\* The fetch resolves with no session.
SessionNone == ProviderSet(NoSessionTuple)

\* The fetch fails.
SessionFailure == ProviderSet(FailureTuple)

\* The private-data query changes its result while the Dashboard observes it.
QueryUpdate ==
    /\ mounted["Dashboard"]
    /\ \E q \in QueryResults :
        /\ q # privateData
        /\ privateData' = q
    /\ dirty' = [dirty EXCEPT !["Dashboard"] = TRUE]
    /\ UNCHANGED <<store, epoch, mounted, obs, deps, out, effectPending,
                   sawUnauth, pushCount, navPending, route, pushFailed, logged>>

\* One render of c: read the store, return the output, schedule the effect
\* if the dependency array changed.
RenderState(c, oldDeps) ==
    LET session == store.data
        isPending == store.isPending
        newDeps == EffectDeps(session, isPending)
    IN  /\ obs' = [obs EXCEPT ![c] = [data |-> session, isPending |-> isPending]]
        /\ out' = [out EXCEPT ![c] = RenderOf(c, session, isPending, privateData)]
        /\ deps' = [deps EXCEPT ![c] = newDeps]
        /\ effectPending' = [effectPending EXCEPT ![c] = DepsChanged(oldDeps, newDeps)]
        /\ dirty' = [dirty EXCEPT ![c] = FALSE]

\* c mounts and renders for the first time.  Mounting the Dashboard is a
\* visit of /dashboard.
Mount(c) ==
    /\ ~mounted[c]
    /\ mounted' = [mounted EXCEPT ![c] = TRUE]
    /\ RenderState(c, NoDeps)
    /\ sawUnauth' = [sawUnauth EXCEPT
                        ![c] = Kind(store.data, store.isPending) = "Unauthenticated"]
    /\ pushCount' = [pushCount EXCEPT ![c] = NoPushes]
    /\ route' = IF c = "Dashboard" THEN "/dashboard" ELSE route
    /\ UNCHANGED <<store, epoch, privateData, navPending, pushFailed, logged>>

\* c re-renders: after a store notification, a query update, or any
\* unrelated state change (a theme toggle, a parent re-render).  The effect
\* of the previous render has run before.
Render(c) ==
    /\ mounted[c]
    /\ ~effectPending[c]
    /\ RenderState(c, deps[c])
    /\ sawUnauth' = [sawUnauth EXCEPT
                        ![c] = @ \/ Kind(store.data, store.isPending) = "Unauthenticated"]
    /\ UNCHANGED <<store, epoch, privateData, mounted, pushCount,
                   navPending, route, pushFailed, logged>>

\* c's effect runs with the values of the render that scheduled it.
RunEffect(c) ==
    /\ mounted[c]
    /\ effectPending[c]
    /\ IF EffectPushes(c)
       THEN pushCount' = PushBy(c) /\ \E ok \in BOOLEAN : RouterPush(ok)
       ELSE UNCHANGED <<pushCount, navPending, pushFailed, logged>>
    /\ effectPending' = [effectPending EXCEPT ![c] = FALSE]
    /\ UNCHANGED <<store, epoch, privateData, mounted, obs, deps, out,
                   dirty, sawUnauth, route>>

\* c is removed.  React flushes a pending effect before the commit that
\* removes the component; afterwards c has no subscription and no effect.
Teardown(c) ==
    /\ IF EffectPushes(c)
       THEN pushCount' = PushBy(c) /\ \E ok \in BOOLEAN : RouterPush(ok)
       ELSE UNCHANGED <<pushCount, navPending, pushFailed, logged>>
    /\ mounted' = [mounted EXCEPT ![c] = FALSE]
    /\ effectPending' = [effectPending EXCEPT ![c] = FALSE]
    /\ dirty' = [dirty EXCEPT ![c] = FALSE]
    /\ out' = [out EXCEPT ![c] = Unmounted]

\* The user leaves: the Dashboard's page for /, or the whole layout.
Unmount(c) ==
    /\ mounted[c]
    /\ Teardown(c)
    /\ route' = IF c = "Dashboard" THEN "/" ELSE route
    /\ UNCHANGED <<store, epoch, privateData, obs, deps, sawUnauth>>

\* A router.push("/login") takes effect: /login is shown and the Dashboard's
\* page, if shown, is removed.  The navigation is a transition: React has
\* rendered the pending store updates and run the scheduled effects before
\* it commits.
NavigationCommit ==
    /\ navPending = "/login"
    /\ \A c \in Components : ~dirty[c] /\ ~effectPending[c]
    /\ route' = "/login"
    /\ navPending' = "none"
    /\ mounted' = [mounted EXCEPT !["Dashboard"] = FALSE]
    /\ out' = [out EXCEPT !["Dashboard"] = Unmounted]
    /\ UNCHANGED <<store, epoch, privateData, obs, deps, sawUnauth, pushCount,
                   effectPending, dirty, pushFailed, logged>>

Next ==
    \/ SessionFetchStart
    \/ SessionResolved
    \/ SessionNone
    \/ SessionFailure
    \/ QueryUpdate
    \/ \E c \in Components : Mount(c)
    \/ \E c \in Components : Render(c)
    \/ \E c \in Components : RunEffect(c)
    \/ \E c \in Components : Unmount(c)
    \/ NavigationCommit

Spec == Init /\ [][Next]_vars

\* React runs the effect it has scheduled for the Dashboard.
FairSpec == Spec /\ WF_vars(RunEffect("Dashboard"))

TypeOK ==
    /\ store \in PendingTuples \cup SessionTuples \cup {NoSessionTuple, FailureTuple}
    /\ epoch \in 0..MaxEpochs
    /\ privateData \in QueryResults
    /\ mounted \in [Components -> BOOLEAN]
    /\ dirty \in [Components -> BOOLEAN]
    /\ effectPending \in [Components -> BOOLEAN]
    /\ navPending \in {"none", "/login"}
    /\ route \in Routes
    /\ pushFailed \in BOOLEAN
    /\ logged = <<>>

----------------------------------------------------------------------------
\* Vocabulary of the properties

D == "Dashboard"
H == "Header"

\* the session state c observed at its last render
ObsKind(c) == Kind(obs[c].data, obs[c].isPending)

\* the session state the store is in
StoreKind == Kind(store.data, store.isPending)

\* c is mounted and has rendered the store's current value
Fresh(c) == mounted[c] /\ ~dirty[c]

\* c is mounted and the effect of its last render has run
Settled(c) == mounted[c] /\ ~effectPending[c]

NoPushBy(c) == \A e \in Epochs : pushCount[c][e] = 0

\* the links of a rendered output
RenderedLinks(o) == IF o.kind = "nav" THEN o.links ELSE <<>>

IsGated(l) == \E i \in DOMAIN gatedLinks : gatedLinks[i] = l

----------------------------------------------------------------------------
\* C1: the Dashboard's output is the protected content only if the tuple it
\* observed at that render has isPending = false and a non-null session.
C1_ProtectedOnlyWhenAuthenticated ==
    out[D].kind = "content" => (~obs[D].isPending /\ obs[D].data # Null)

C1_Witness ==
    /\ mounted[D]
    /\ out[D].kind = "content"
    /\ ObsKind(D) = "Authenticated"

\* C2: a mounted Dashboard calls router.push at most once in each epoch, and
\* once it has observed "no session" and its effect has run it has called
\* it exactly once for the current epoch, however often it re-rendered.
C2_DashboardRedirectsExactlyOnce ==
    /\ \A e \in Epochs : pushCount[D][e] <= 1
    /\ (Settled(D) /\ ObsKind(D) = "Unauthenticated") => pushCount[D][epoch] = 1

\* The Dashboard observed Pending at its mount, then "no session"; it has
\* re-rendered after a query update since, and has pushed once.
C2_Witness ==
    /\ Settled(D) /\ Fresh(D)
    /\ ObsKind(D) = "Unauthenticated"
    /\ privateData.status = "error"
    /\ epoch = 1
    /\ pushCount[D][1] = 1

\* C3: while the Header's observed state is Pending or Unauthenticated, no
\* gated link is among the links it rendered.
C3_GatedLinksHidden ==
    (mounted[H] /\ ObsKind(H) # "Authenticated") =>
        \A i \in DOMAIN RenderedLinks(out[H]) : ~IsGated(RenderedLinks(out[H])[i])

C3_Witness ==
    /\ mounted[H]
    /\ ObsKind(H) = "Unauthenticated"
    /\ out[H].kind = "nav"
    /\ Len(out[H].links) = 1

\* C4: for a resolved state the Header renders Home, Dashboard, Todos in
\* that order if the state is Authenticated and Home alone otherwise.
C4_LinksByState ==
    (mounted[H] /\ ~obs[H].isPending) =>
        /\ out[H].kind = "nav"
        /\ out[H].links =
             IF ObsKind(H) = "Authenticated"
             THEN << [to |-> "/", label |-> "Home"],
                     [to |-> "/dashboard", label |-> "Dashboard"],
                     [to |-> "/todos", label |-> "Todos"] >>
             ELSE << [to |-> "/", label |-> "Home"] >>

C4_Witness ==
    /\ mounted[H]
    /\ ObsKind(H) = "Authenticated"
    /\ Len(RenderedLinks(out[H])) = 3

\* C5: a Dashboard that has rendered an Authenticated store value shows the
\* content with the name of that store value's user, and a Dashboard mount
\* that has observed only Pending and Authenticated has called router.push
\* never.
C5_AuthenticatedRendersUserNoRedirect ==
    /\ (Fresh(D) /\ StoreKind = "Authenticated") =>
          /\ out[D].kind = "content"
          /\ out[D].welcome = store.data.user.name
    /\ (mounted[D] /\ ~sawUnauth[D]) => NoPushBy(D)

C5_Witness ==
    /\ Fresh(D) /\ Settled(D)
    /\ ~sawUnauth[D]
    /\ StoreKind = "Authenticated"
    /\ out[D].kind = "content"
    /\ out[D].welcome = "bob"
    /\ NoPushBy(D)

\* C6: a component whose observed tuple has isPending = true (with or
\* without a session) has rendered the loading placeholder and nothing else,
\* and the effect of that render calls router.push not at all.
C6_PendingShowsLoaderOnly ==
    /\ [](\A c \in Components : (mounted[c] /\ obs[c].isPending) => out[c] = Loader)
    /\ [][\A c \in Components :
            (obs[c].isPending /\ effectPending[c] /\ ~effectPending'[c])
                => pushCount'[c] = pushCount[c]]_vars

C6_Witness ==
    /\ \A c \in Components :
          /\ Settled(c)
          /\ obs[c].isPending /\ obs[c].data # Null
          /\ out[c] = Loader
          /\ NoPushBy(c)

C8_NoRedirectAfterUnmountInPending ==
    [][\A c \in Components :
         /\ (~mounted[c] /\ ~mounted'[c]) => pushCount'[c] = pushCount[c]
         /\ (mounted[c] /\ ~mounted'[c] /\ obs[c].isPending)
                => pushCount'[c] = pushCount[c]]_vars

\* The Dashboard was mounted, observed Pending last, is removed, the store
\* has resolved with no session since, and the Dashboard has not pushed.
C8_Witness ==
    /\ ~mounted[D]
    /\ privateData.status # "pending"
    /\ obs[D].isPending
    /\ ~sawUnauth[D]
    /\ StoreKind = "Unauthenticated"
    /\ epoch = 1
    /\ NoPushBy(D)

\* C9: whenever a Dashboard that stays mounted observes a transition into
\* "no session" (from Pending or Authenticated), it has not pushed for that
\* transition yet and the redirecting effect is scheduled; and a mount that
\* has already redirected in an earlier epoch has, once that effect has run,
\* redirected exactly once more for the current one.
C9_GuardResetsPerTransition ==
    /\ []((/\ Settled(D)
           /\ ObsKind(D) = "Unauthenticated"
           /\ \E e \in Epochs : e < epoch /\ pushCount[D][e] = 1)
              => pushCount[D][epoch] = 1)
    /\ [][(/\ mounted[D] /\ mounted'[D]
           /\ ObsKind(D) # "Unauthenticated"
           /\ Kind(obs'[D].data, obs'[D].isPending) = "Unauthenticated")
              => (/\ pushCount'[D][epoch'] = 0
                  /\ effectPending'[D]
                  /\ ShouldRedirect(D, obs'[D].data, obs'[D].isPending))]_vars

C9_Witness ==
    /\ Settled(D)
    /\ ObsKind(D) = "Unauthenticated"
    /\ epoch = 2
    /\ pushCount[D][1] = 1
    /\ pushCount[D][2] = 1

\* C10: in each epoch (transition of the store into "no session") the
\* Dashboard and the Header mounted together call router.push at most once
\* in total.
C10_AtMostOnePushPerTransition ==
    (mounted[D] /\ mounted[H]) =>
        \A e \in Epochs : pushCount[D][e] + pushCount[H][e] <= 1

\* C11: the Header calls router.push never.
C11_HeaderNeverRedirects == NoPushBy(H)

\* the message text the content shows for the query result q
ShownMessage(q) ==
    IF q.status = "success" THEN [text |-> q.data.message] ELSE Undefined

\* C12: what a mounted component has rendered is fixed by the tuple it
\* observed at that render, whatever it observed before: Loader for Pending;
\* for the Header the Home link alone or Home, Dashboard, Todos; for the
\* Dashboard nothing or the content with the observed user's name (and the
\* message of the query result it rendered).
C12_OutputFromLatestTuple ==
    /\ mounted[H] =>
          out[H] = CASE ObsKind(H) = "Pending" -> [kind |-> "Loader"]
                     [] ObsKind(H) = "Unauthenticated" ->
                          [kind |-> "nav", links |-> <<HomeLink>>]
                     [] ObsKind(H) = "Authenticated" ->
                          [kind |-> "nav",
                           links |-> <<HomeLink, DashboardLink, TodosLink>>]
    /\ mounted[D] =>
          CASE ObsKind(D) = "Pending" -> out[D] = [kind |-> "Loader"]
            [] ObsKind(D) = "Unauthenticated" -> out[D] = [kind |-> "null"]
            [] ObsKind(D) = "Authenticated" ->
                 /\ out[D].kind = "content"
                 /\ out[D].welcome = obs[D].data.user.name
                 /\ \E q \in QueryResults : out[D].privateData = ShownMessage(q)
                 /\ Fresh(D) => out[D].privateData = ShownMessage(privateData)

\* C12 as stated: a re-render of the mounted Dashboard that observes the
\* same tuple as the render before returns the same output.
C12_SameTupleSameOutput ==
    [][(mounted[D] /\ mounted'[D] /\ obs'[D] = obs[D]) => out'[D] = out[D]]_vars

\* Both components have observed "no session" earlier in this mount and
\* render the Authenticated output now.
C12_Witness ==
    /\ \A c \in Components : Fresh(c) /\ sawUnauth[c] /\ ObsKind(c) = "Authenticated"
    /\ out[D].kind = "content"
    /\ Len(out[H].links) = 3

\* C15: for every query result, which of Loader, nothing and content the
\* Dashboard renders is fixed by the observed session tuple; a query update
\* issues no redirect and schedules no effect, and a re-render that observes
\* the same tuple keeps the render state and schedules no effect.
C15_QueryNotPartOfGate ==
    /\ [](mounted[D] =>
            out[D].kind = CASE ObsKind(D) = "Pending" -> "Loader"
                            [] ObsKind(D) = "Unauthenticated" -> "null"
                            [] ObsKind(D) = "Authenticated" -> "content")
    /\ [][privateData' # privateData =>
            /\ pushCount' = pushCount
            /\ effectPending' = effectPending
            /\ out' = out]_vars
    /\ [][(mounted[D] /\ mounted'[D] /\ obs'[D] = obs[D] /\ ~effectPending[D]) =>
            /\ ~effectPending'[D]
            /\ pushCount'[D] = pushCount[D]
            /\ out'[D].kind = out[D].kind]_vars

\* The query has failed and the Dashboard, Authenticated, has rendered it:
\* the content is shown without a message.
C15_Witness ==
    /\ Fresh(D) /\ Settled(D)
    /\ ObsKind(D) = "Authenticated"
    /\ privateData.status = "error"
    /\ out[D].kind = "content"
    /\ out[D].privateData = Undefined
    /\ NoPushBy(D)

\* C13: once a mounted Dashboard has observed "no session", it has called
\* router.push for the current epoch or will do so.
C13_RedirectEventuallyIssued ==
    (mounted[D] /\ ObsKind(D) = "Unauthenticated") ~> (pushCount[D][epoch] = 1)

\* The Dashboard renders nothing, its redirect is issued and has not taken
\* effect yet.
C13_Witness ==
    /\ Settled(D)
    /\ ObsKind(D) = "Unauthenticated"
    /\ out[D] = Nothing
    /\ pushCount[D][epoch] = 1
    /\ navPending = "/login"
    /\ route = "/dashboard"

\* C14: when a redirect takes effect while the store is in "no session",
\* the Dashboard is gone, /login is shown and a mounted Header has observed
\* "no session" and run its effect; and from any such state, as long as the
\* store stays in "no session", the Header stays mounted and the Dashboard
\* stays away, no component calls router.push and the Header stays so.
C14_RedirectDoesNotLoop ==
    /\ [][(/\ navPending = "/login" /\ navPending' = "none"
           /\ StoreKind' = "Unauthenticated"
           /\ mounted'[H])
              => (/\ route' = "/login"
                  /\ ~mounted'[D]
                  /\ Settled(H)'
                  /\ ObsKind(H)' = "Unauthenticated")]_vars
    /\ [][(/\ route = "/login"
           /\ ~mounted[D] /\ ~mounted'[D]
           /\ Settled(H) /\ mounted'[H]
           /\ ObsKind(H) = "Unauthenticated"
           /\ StoreKind = "Unauthenticated" /\ StoreKind' = "Unauthenticated")
              => (/\ pushCount' = pushCount
                  /\ Settled(H)'
                  /\ ObsKind(H)' = "Unauthenticated")]_vars

\* The redirect issued by the Dashboard has taken effect; the Header, on
\* /login, has re-rendered the failed resolution that followed.
C14_Witness ==
    /\ route = "/login"
    /\ navPending = "none"
    /\ ~mounted[D]
    /\ pushCount[D][epoch] = 1
    /\ Settled(H) /\ Fresh(H)
    /\ ObsKind(H) = "Unauthenticated"
    /\ store = FailureTuple
    /\ epoch = 1

\* C16: when a router.push has failed and the Dashboard, which has called
\* it for this epoch, renders nothing, the failure has been reported to the
\* logging collaborator.
C16_RedirectFailureLogged ==
    (/\ pushFailed
     /\ Settled(D) /\ out[D] = Nothing
     /\ pushCount[D][epoch] = 1
     /\ ~mounted[H])
        => logged # <<>>
====
